---- MODULE Spec2Model ----
(***************************************************************************)
(* Order service: order creation with synchronous payment initiation and   *)
(* the per-order watcher (setInterval callback) that polls the payment     *)
(* provider and advances the order's status.                               *)
(*                                                                         *)
(* Modelled from order-service/src/orderService.ts (class OrderService)    *)
(* and order-service/src/paymentsClient.ts (class PaymentsClient).         *)
(***************************************************************************)
EXTENDS Integers, Sequences, FiniteSets, TLC

(* ------------------------------ bounds -------------------------------- *)
\* number of createOrder calls made in a run
MaxOrders == 2
\* number of getPayment calls one watcher may have outstanding at a time
MaxInFlight == 2
\* last value of the wall clock read by new Date()
MaxTime == 1
\* longest item list submitted in the totals specification
MaxItems == 2

(* ------------------------------ values -------------------------------- *)
OrderIds == 1..MaxOrders
PayId(n) == <<"pay", n>>
PaymentIds == {PayId(n) : n \in 1..MaxOrders}
\* Order.paymentId is optional; this is the absent value
NoPayment == <<>>
Times == 0..MaxTime

OrderStatuses == {"pending", "completed", "cancelled"}
\* Payment.status is a provider-defined string
PaymentStatuses == {"pending", "authorized", "completed", "failed", "cancelled"}
TerminalPayment == {"completed", "failed", "cancelled"}

Products == {"p1"}
Quantities == {1, 2}
Prices == {30, 50}
OrderItem == [productId : Products, quantity : Quantities, price : Prices]
ItemLists == UNION {[1..n -> OrderItem] : n \in 1..MaxItems}
Currencies == {"USD", "EUR"}

\* the request submitted in the reconciliation specifications
Requests ==
    { [items |-> <<[productId |-> "p1", quantity |-> 2, price |-> 50]>>,
       currency |-> "USD"] }

\* what one fetch() can end in: a 2xx response, a non-2xx response,
\* a rejected promise (transport failure)
FetchOutcomes == {"ok", "non2xx", "transport"}
FetchFailures == FetchOutcomes \ {"ok"}
\* what the provider can answer to GET /payments/{id}: the payment in some
\* status, or a failure
PollAnswers ==
    [outcome : {"ok"}, status : PaymentStatuses]
        \cup [outcome : FetchFailures, status : {"none"}]

\* errors are records; cause is the error an error wraps, NoError when it wraps none
NoError == [name |-> "none", message |-> ""]
\* fetch() rejects (network failure)
TransportError == [name |-> "TypeError", message |-> "fetch failed", cause |-> NoError]
CreatePaymentError ==
    [name |-> "Error", message |-> "Failed to create payment", cause |-> NoError]
GetPaymentError ==
    [name |-> "Error", message |-> "Failed to get payment", cause |-> NoError]
\* the error createOrder throws from its catch block
PaymentFailedError ==
    [name |-> "Error", message |-> "Payment failed, order cancelled.", cause |-> NoError]

VARIABLES
    orders,     \* OrderService.orders: Map<string, Order>
    nextId,     \* how many ids uuidv4() has handed out, plus one
    call,       \* per createOrder call: where it is, and what it settled with
    watchers,   \* per order: the setInterval handle and its callbacks in flight
    provider,   \* the payment provider's payments, by payment id
    now,        \* the clock read by new Date()
    reply       \* what the last getOrder or updateOrderStatus call resolved with

vars == <<orders, nextId, call, watchers, provider, now, reply>>

(* --------------------------- PaymentsClient --------------------------- *)
\* mutant: a failed request is sent a second time before the call fails
createPayment_RetryOnFailure(outcome, payment) ==
    IF outcome = "transport" THEN [ok |-> FALSE, error |-> TransportError, fetches |-> 2]
    ELSE IF outcome = "non2xx" THEN [ok |-> FALSE, error |-> CreatePaymentError, fetches |-> 2]
    ELSE [ok |-> TRUE, payment |-> payment, fetches |-> 1]

\* PaymentsClient.createPayment: one fetch; a rejected fetch or a non-ok
\* response is rethrown, an ok response's body is returned; fetches is the
\* number of fetch calls the invocation made
createPayment(outcome, payment) ==
    IF outcome = "transport" THEN [ok |-> FALSE, error |-> TransportError, fetches |-> 1]
    ELSE IF outcome = "non2xx" THEN [ok |-> FALSE, error |-> CreatePaymentError, fetches |-> 1]
    ELSE [ok |-> TRUE, payment |-> payment, fetches |-> 1]

\* PaymentsClient.getPayment
getPayment(outcome, payment) ==
    IF outcome = "transport" THEN [ok |-> FALSE, error |-> TransportError, fetches |-> 1]
    ELSE IF outcome = "non2xx" THEN [ok |-> FALSE, error |-> GetPaymentError, fetches |-> 1]
    ELSE [ok |-> TRUE, payment |-> payment, fetches |-> 1]

(* ---------------------------- OrderService ---------------------------- *)
uuidv4 == nextId

RECURSIVE reduce(_, _, _)
\* items.reduce((sum, item) => sum + item.quantity * item.price, ...): the
\* fold from index i on, with the accumulator sum
reduce(items, i, sum) ==
    IF i > Len(items) THEN sum
    ELSE reduce(items, i + 1, sum + items[i].quantity * items[i].price)

\* mutant: the quantity is left out of the sum
TotalAmount_PricesOnly(items) ==
    IF Len(items) = 0 THEN 0
    ELSE reduce(items, 2, items[1].price)

\* const totalAmount = items.reduce(..., 0)
TotalAmount(items) == reduce(items, 1, 0)

undefined == [undefined |-> TRUE]

\* OrderService.getOrder
getOrder(id) == IF id \in DOMAIN orders THEN orders[id] ELSE undefined

\* state: the interval handle (none yet, active, cleared); paymentId: the
\* paymentId argument the callbacks close over; inflight: callbacks awaiting
\* getPayment; started: how many times pollPaymentStatus was called for the order
NoWatcher == [state |-> "none", paymentId |-> NoPayment, inflight |-> 0, started |-> 0]
\* a createOrder call: pc is where it is; result is the order its promise
\* resolved with; caught is the error its catch block received and error the
\* one it rejected with; gateway is the sequence of gateway calls it has made
IdleCall ==
    [pc |-> "idle", result |-> undefined, caught |-> NoError, error |-> NoError,
     gateway |-> <<>>]

\* the store with one more entry
Put(store, id, order) ==
    [k \in DOMAIN store \cup {id} |-> IF k = id THEN order ELSE store[k]]

\* mutant: the entry is written back without its paymentId
updateOrderStatus_DropPaymentId(store, id, status) ==
    IF id \in DOMAIN store
    THEN [store EXCEPT ![id].status = status, ![id].updatedAt = now,
                       ![id].paymentId = NoPayment]
    ELSE store

\* mutant: an order in a terminal status is left as it is
updateOrderStatus_KeepTerminal(store, id, status) ==
    IF id \in DOMAIN store /\ store[id].status \notin {"completed", "cancelled"}
    THEN [store EXCEPT ![id].status = status, ![id].updatedAt = now]
    ELSE store

\* mutant: an id the store does not know gets an entry with the given status
updateOrderStatus_Upsert(store, id, status) ==
    IF id \in DOMAIN store
    THEN [store EXCEPT ![id].status = status, ![id].updatedAt = now]
    ELSE Put(store, id, [id |-> id, items |-> <<>>, totalAmount |-> 0, currency |-> "",
                         status |-> status, paymentId |-> NoPayment,
                         createdAt |-> now, updatedAt |-> now])

\* mutant: the entry is rebuilt, with both timestamps taken from the clock
updateOrderStatus_ResetsCreatedAt(store, id, status) ==
    IF id \in DOMAIN store
    THEN [store EXCEPT ![id].status = status, ![id].updatedAt = now, ![id].createdAt = now]
    ELSE store

\* mutant: the status is written to every entry of the store
updateOrderStatus_AllEntries(store, id, status) ==
    IF id \in DOMAIN store
    THEN [k \in DOMAIN store |-> [store[k] EXCEPT !.status = status, !.updatedAt = now]]
    ELSE store

\* OrderService.updateOrderStatus applied to the store
updateOrderStatus(store, id, status) ==
    IF id \in DOMAIN store
    THEN [store EXCEPT ![id].status = status, ![id].updatedAt = now]
    ELSE store

\* what getOrder and updateOrderStatus resolve with: the stored object itself
\* (a reference to the map entry, not a copy), or undefined
Ref(store, id) == IF id \in DOMAIN store THEN [ref |-> id] ELSE undefined

\* no getOrder or updateOrderStatus call has resolved yet
NoReply == [op |-> "none"]

\* mutant: getOrder stores an empty pending order under an id it does not know
GetOrder_Upsert(id) ==
    /\ orders' = IF id \in DOMAIN orders THEN orders
                 ELSE Put(orders, id, [id |-> id, items |-> <<>>, totalAmount |-> 0,
                                       currency |-> "", status |-> "pending",
                                       paymentId |-> NoPayment,
                                       createdAt |-> now, updatedAt |-> now])
    /\ reply' = [op |-> "getOrder", id |-> id, result |-> Ref(orders', id)]
    /\ UNCHANGED <<nextId, call, watchers, provider, now>>

\* a getOrder call
GetOrder(id) ==
    /\ reply' = [op |-> "getOrder", id |-> id, result |-> Ref(orders, id)]
    /\ UNCHANGED <<orders, nextId, call, watchers, provider, now>>

\* an updateOrderStatus call from outside the service
UpdateOrderStatus(id, status) ==
    /\ orders' = updateOrderStatus(orders, id, status)
    /\ reply' = [op |-> "updateOrderStatus", id |-> id, result |-> Ref(orders, id)]
    /\ UNCHANGED <<nextId, call, watchers, provider, now>>

\* mutant: the amount is converted to cents for the gateway
CreateOrder_ToCents(items, currency) ==
    /\ nextId <= MaxOrders
    /\ LET id == uuidv4
           newOrder == [id |-> id,
                        items |-> items,
                        totalAmount |-> TotalAmount(items),
                        currency |-> currency,
                        status |-> "pending",
                        paymentId |-> NoPayment,
                        createdAt |-> now,
                        updatedAt |-> now]
       IN /\ orders' = Put(orders, id, newOrder)
          /\ call' = [call EXCEPT
                 ![id].pc = "awaitPayment",
                 ![id].gateway = <<[op |-> "createPayment",
                                    amountCents |-> newOrder.totalAmount * 100,
                                    currency |-> currency]>>]
    /\ nextId' = nextId + 1
    /\ UNCHANGED <<watchers, provider, now, reply>>

\* mutant: the order is built before the await but stored only after it
CreateOrder_InsertLate(items, currency) ==
    /\ nextId <= MaxOrders
    /\ call' = [call EXCEPT ![uuidv4].pc = "awaitPayment"]
    /\ nextId' = nextId + 1
    /\ UNCHANGED <<orders, watchers, provider, now, reply>>

\* createOrder up to its await: the order is built, stored, and the
\* createPayment request is issued
CreateOrder(items, currency) ==
    /\ nextId <= MaxOrders
    /\ LET id == uuidv4
           newOrder == [id |-> id,
                        items |-> items,
                        totalAmount |-> TotalAmount(items),
                        currency |-> currency,
                        status |-> "pending",
                        paymentId |-> NoPayment,
                        createdAt |-> now,
                        updatedAt |-> now]
       IN /\ orders' = Put(orders, id, newOrder)
          /\ call' = [call EXCEPT
                 ![id].pc = "awaitPayment",
                 ![id].gateway = <<[op |-> "createPayment",
                                    amountCents |-> newOrder.totalAmount,
                                    currency |-> currency]>>]
    /\ nextId' = nextId + 1
    /\ UNCHANGED <<watchers, provider, now, reply>>

\* the id the provider gives the payment it creates for createOrder call id:
\* ids are fresh, one per createPayment request
NewPaymentId(id) == PayId(id)

\* mutant: paymentId is set on a copy of the order, the stored one is not updated
CreateOrderPaid_CopyOnly(id) ==
    /\ call[id].pc = "awaitPayment"
    /\ LET payment == [id |-> NewPaymentId(id),
                       status |-> "pending",
                       amountCents |-> orders[id].totalAmount,
                       currency |-> orders[id].currency]
           r == createPayment("ok", payment)
       IN /\ provider' = Put(provider, payment.id, payment)
          /\ orders' = orders
          /\ watchers' = [watchers EXCEPT
                 ![id] = [state |-> "active", paymentId |-> r.payment.id,
                          inflight |-> 0, started |-> watchers[id].started + 1]]
          /\ call' = [call EXCEPT ![id].pc = "returned",
                 ![id].result = [orders[id] EXCEPT !.paymentId = r.payment.id]]
    /\ UNCHANGED <<nextId, now, reply>>

\* mutant: createOrder writes back the order as it built it before the await
CreateOrderPaid_StaleWrite(id) ==
    /\ call[id].pc = "awaitPayment"
    /\ LET payment == [id |-> NewPaymentId(id),
                       status |-> "pending",
                       amountCents |-> call[id].gateway[1].amountCents,
                       currency |-> call[id].gateway[1].currency]
           r == createPayment("ok", payment)
       IN /\ provider' = Put(provider, payment.id, payment)
          /\ orders' = [orders EXCEPT ![id].paymentId = r.payment.id,
                                      ![id].status = "pending",
                                      ![id].updatedAt = orders[id].createdAt]
          /\ watchers' = [watchers EXCEPT
                 ![id] = [state |-> "active", paymentId |-> r.payment.id,
                          inflight |-> 0, started |-> watchers[id].started + 1]]
    /\ call' = [call EXCEPT ![id].pc = "returned", ![id].result = orders'[id]]
    /\ UNCHANGED <<nextId, now, reply>>

\* createOrder resumed with the created payment (the provider creates it
\* with the amount and the currency of the request): paymentId is set on the
\* stored order and pollPaymentStatus starts the interval
CreateOrderPaid(id) ==
    /\ call[id].pc = "awaitPayment"
    /\ LET payment == [id |-> NewPaymentId(id),
                       status |-> "pending",
                       amountCents |-> call[id].gateway[1].amountCents,
                       currency |-> call[id].gateway[1].currency]
           r == createPayment("ok", payment)
       IN /\ provider' = Put(provider, payment.id, payment)
          /\ orders' = [orders EXCEPT ![id].paymentId = r.payment.id]
          /\ watchers' = [watchers EXCEPT
                 ![id] = [state |-> "active", paymentId |-> r.payment.id,
                          inflight |-> 0, started |-> watchers[id].started + 1]]
    /\ call' = [call EXCEPT ![id].pc = "returned", ![id].result = orders'[id]]
    /\ UNCHANGED <<nextId, now, reply>>

\* mutant: a failed createPayment call is made a second time before the
\* order is cancelled
CreateOrderFailed_RetryOnce(id, outcome) ==
    /\ call[id].pc = "awaitPayment"
    /\ outcome # "ok"
    /\ LET r == createPayment(outcome, undefined)
       IN IF Len(call[id].gateway) < 2
          THEN /\ call' = [call EXCEPT ![id].gateway = Append(@, @[1])]
               /\ UNCHANGED orders
          ELSE /\ orders' = [orders EXCEPT ![id].status = "cancelled"]
               /\ call' = [call EXCEPT ![id].pc = "thrown",
                                       ![id].caught = r.error,
                                       ![id].error = PaymentFailedError]
    /\ UNCHANGED <<nextId, watchers, provider, now, reply>>

\* mutant: the watcher is started in the catch block as well
CreateOrderFailed_StartsWatcher(id, outcome) ==
    /\ call[id].pc = "awaitPayment"
    /\ outcome # "ok"
    /\ LET r == createPayment(outcome, undefined)
       IN /\ orders' = [orders EXCEPT ![id].status = "cancelled"]
          /\ call' = [call EXCEPT ![id].pc = "thrown",
                                  ![id].caught = r.error,
                                  ![id].error = PaymentFailedError]
    /\ watchers' = [watchers EXCEPT
           ![id] = [state |-> "active", paymentId |-> NoPayment,
                    inflight |-> 0, started |-> watchers[id].started + 1]]
    /\ UNCHANGED <<nextId, provider, now, reply>>

\* mutant: the catch block rolls the order back instead of cancelling it
CreateOrderFailed_Rollback(id, outcome) ==
    /\ call[id].pc = "awaitPayment"
    /\ outcome # "ok"
    /\ LET r == createPayment(outcome, undefined)
       IN /\ orders' = [k \in DOMAIN orders \ {id} |-> orders[k]]
          /\ call' = [call EXCEPT ![id].pc = "thrown",
                                  ![id].caught = r.error,
                                  ![id].error = PaymentFailedError]
    /\ UNCHANGED <<nextId, watchers, provider, now, reply>>

\* mutant: the catch block rethrows the gateway's error
CreateOrderFailed_Rethrow(id, outcome) ==
    /\ call[id].pc = "awaitPayment"
    /\ outcome # "ok"
    /\ LET r == createPayment(outcome, undefined)
       IN /\ orders' = [orders EXCEPT ![id].status = "cancelled"]
          /\ call' = [call EXCEPT ![id].pc = "thrown",
                                  ![id].caught = r.error,
                                  ![id].error = r.error]
    /\ UNCHANGED <<nextId, watchers, provider, now, reply>>

\* createOrder resumed with createPayment's error: the catch block
CreateOrderFailed(id, outcome) ==
    /\ call[id].pc = "awaitPayment"
    /\ outcome # "ok"
    /\ LET r == createPayment(outcome, undefined)
       IN /\ orders' = [orders EXCEPT ![id].status = "cancelled"]
          /\ call' = [call EXCEPT ![id].pc = "thrown",
                                  ![id].caught = r.error,
                                  ![id].error = PaymentFailedError]
    /\ UNCHANGED <<nextId, watchers, provider, now, reply>>

\* mutant: a one-shot timer (setTimeout) instead of setInterval
PollTick_OneShot(id) ==
    /\ watchers[id].state = "active"
    /\ watchers[id].inflight < MaxInFlight
    /\ watchers' = [watchers EXCEPT ![id].inflight = @ + 1, ![id].state = "cleared"]
    /\ UNCHANGED <<orders, nextId, call, provider, now, reply>>

\* mutant: one shared poller, which issues a getPayment call only when no
\* call of another order is outstanding
PollTick_SingleFlight(id) ==
    /\ watchers[id].state = "active"
    /\ watchers[id].inflight < MaxInFlight
    /\ \A other \in OrderIds \ {id} : watchers[other].inflight = 0
    /\ watchers' = [watchers EXCEPT ![id].inflight = @ + 1]
    /\ UNCHANGED <<orders, nextId, call, provider, now, reply>>

\* the interval fires: the callback starts and issues getPayment
PollTick(id) ==
    /\ watchers[id].state = "active"
    /\ watchers[id].inflight < MaxInFlight
    /\ watchers' = [watchers EXCEPT ![id].inflight = @ + 1]
    /\ UNCHANGED <<orders, nextId, call, provider, now, reply>>

\* mutant: the interval is cleared after the first answer, whatever it says
PollResult_ClearAlways(id, outcome, status) ==
    /\ watchers[id].inflight > 0
    /\ LET paymentId == watchers[id].paymentId
           r == getPayment(outcome, [provider[paymentId] EXCEPT !.status = status])
       IN IF ~r.ok
          THEN UNCHANGED orders
          ELSE IF r.payment.status = "completed"
          THEN orders' = updateOrderStatus(orders, id, "completed")
          ELSE IF r.payment.status = "failed" \/ r.payment.status = "cancelled"
          THEN orders' = updateOrderStatus(orders, id, "cancelled")
          ELSE UNCHANGED orders
    /\ watchers' = [watchers EXCEPT ![id].inflight = @ - 1, ![id].state = "cleared"]
    /\ UNCHANGED <<nextId, call, provider, now, reply>>

\* mutant: an authorized payment already completes the order
PollResult_CompleteOnAuthorized(id, outcome, status) ==
    /\ watchers[id].inflight > 0
    /\ LET paymentId == watchers[id].paymentId
           r == getPayment(outcome, [provider[paymentId] EXCEPT !.status = status])
       IN IF ~r.ok
          THEN /\ watchers' = [watchers EXCEPT ![id].inflight = @ - 1, ![id].state = "cleared"]
               /\ UNCHANGED orders
          ELSE IF r.payment.status = "completed" \/ r.payment.status = "authorized"
          THEN /\ orders' = updateOrderStatus(orders, id, "completed")
               /\ watchers' = [watchers EXCEPT ![id].inflight = @ - 1, ![id].state = "cleared"]
          ELSE IF r.payment.status = "failed" \/ r.payment.status = "cancelled"
          THEN /\ orders' = updateOrderStatus(orders, id, "cancelled")
               /\ watchers' = [watchers EXCEPT ![id].inflight = @ - 1, ![id].state = "cleared"]
          ELSE /\ watchers' = [watchers EXCEPT ![id].inflight = @ - 1]
               /\ UNCHANGED orders
    /\ UNCHANGED <<nextId, call, provider, now, reply>>

\* mutant: a failed or cancelled payment cancels the order but the interval
\* is not cleared
PollResult_NoClearOnFailed(id, outcome, status) ==
    /\ watchers[id].inflight > 0
    /\ LET paymentId == watchers[id].paymentId
           r == getPayment(outcome, [provider[paymentId] EXCEPT !.status = status])
       IN IF ~r.ok
          THEN /\ watchers' = [watchers EXCEPT ![id].inflight = @ - 1,
                                               ![id].state = "cleared"]
               /\ UNCHANGED orders
          ELSE IF r.payment.status = "completed"
          THEN /\ orders' = updateOrderStatus(orders, id, "completed")
               /\ watchers' = [watchers EXCEPT ![id].inflight = @ - 1,
                                               ![id].state = "cleared"]
          ELSE IF r.payment.status = "failed" \/ r.payment.status = "cancelled"
          THEN /\ orders' = updateOrderStatus(orders, id, "cancelled")
               /\ watchers' = [watchers EXCEPT ![id].inflight = @ - 1]
          ELSE /\ watchers' = [watchers EXCEPT ![id].inflight = @ - 1]
               /\ UNCHANGED orders
    /\ UNCHANGED <<nextId, call, provider, now, reply>>

\* mutant: a poll error clears the interval and starts a new watcher (retry)
PollResult_RestartOnError(id, outcome, status) ==
    /\ watchers[id].inflight > 0
    /\ LET paymentId == watchers[id].paymentId
           r == getPayment(outcome, [provider[paymentId] EXCEPT !.status = status])
       IN IF ~r.ok
          THEN /\ watchers' = [watchers EXCEPT ![id].inflight = @ - 1,
                                               ![id].state = "active",
                                               ![id].started = @ + 1]
               /\ UNCHANGED orders
          ELSE IF r.payment.status = "completed"
          THEN /\ orders' = updateOrderStatus(orders, id, "completed")
               /\ watchers' = [watchers EXCEPT ![id].inflight = @ - 1,
                                               ![id].state = "cleared"]
          ELSE IF r.payment.status = "failed" \/ r.payment.status = "cancelled"
          THEN /\ orders' = updateOrderStatus(orders, id, "cancelled")
               /\ watchers' = [watchers EXCEPT ![id].inflight = @ - 1,
                                               ![id].state = "cleared"]
          ELSE /\ watchers' = [watchers EXCEPT ![id].inflight = @ - 1]
               /\ UNCHANGED orders
    /\ UNCHANGED <<nextId, call, provider, now, reply>>

\* mutant: a poll error is swallowed and the interval keeps firing
PollResult_RetryOnError(id, outcome, status) ==
    /\ watchers[id].inflight > 0
    /\ LET paymentId == watchers[id].paymentId
           r == getPayment(outcome, [provider[paymentId] EXCEPT !.status = status])
       IN IF ~r.ok
          THEN /\ watchers' = [watchers EXCEPT ![id].inflight = @ - 1]
               /\ UNCHANGED orders
          ELSE IF r.payment.status = "completed"
          THEN /\ orders' = updateOrderStatus(orders, id, "completed")
               /\ watchers' = [watchers EXCEPT ![id].inflight = @ - 1,
                                               ![id].state = "cleared"]
          ELSE IF r.payment.status = "failed" \/ r.payment.status = "cancelled"
          THEN /\ orders' = updateOrderStatus(orders, id, "cancelled")
               /\ watchers' = [watchers EXCEPT ![id].inflight = @ - 1,
                                               ![id].state = "cleared"]
          ELSE /\ watchers' = [watchers EXCEPT ![id].inflight = @ - 1]
               /\ UNCHANGED orders
    /\ UNCHANGED <<nextId, call, provider, now, reply>>

\* a callback resumed with getPayment's result; status is the status the
\* provider reports for the payment in its answer. The callback may belong
\* to an interval that is already cleared: clearInterval cancels future
\* ticks, not callbacks that are awaiting getPayment. updateOrderStatus has
\* no await inside, so "await this.updateOrderStatus(...)" resumes in a
\* microtask and no timer tick can fall between the update and clearInterval:
\* they are one step.
PollResult(id, outcome, status) ==
    /\ watchers[id].inflight > 0
    /\ LET paymentId == watchers[id].paymentId
           r == getPayment(outcome, [provider[paymentId] EXCEPT !.status = status])
       IN IF ~r.ok
          THEN /\ watchers' = [watchers EXCEPT ![id].inflight = @ - 1,
                                               ![id].state = "cleared"]
               /\ UNCHANGED orders
          ELSE IF r.payment.status = "completed"
          THEN /\ orders' = updateOrderStatus(orders, id, "completed")
               /\ watchers' = [watchers EXCEPT ![id].inflight = @ - 1,
                                               ![id].state = "cleared"]
          ELSE IF r.payment.status = "failed" \/ r.payment.status = "cancelled"
          THEN /\ orders' = updateOrderStatus(orders, id, "cancelled")
               /\ watchers' = [watchers EXCEPT ![id].inflight = @ - 1,
                                               ![id].state = "cleared"]
          ELSE /\ watchers' = [watchers EXCEPT ![id].inflight = @ - 1]
               /\ UNCHANGED orders
    /\ UNCHANGED <<nextId, call, provider, now, reply>>

(* ---------------------------- environment ----------------------------- *)
\* time passes
ClockTick ==
    /\ now < MaxTime
    /\ now' = now + 1
    /\ UNCHANGED <<orders, nextId, call, watchers, provider, reply>>

(* --------------------------- specification ---------------------------- *)
(* Spec: createOrder calls and their watchers. The answer to each getPayment
   call is an input: Payment.status is any string the provider chooses, and
   the code puts no constraint on how it evolves between two answers. *)
EmptyStore == [k \in {} |-> undefined]

Init ==
    /\ orders = EmptyStore
    /\ nextId = 1
    /\ call = [id \in OrderIds |-> IdleCall]
    /\ watchers = [id \in OrderIds |-> NoWatcher]
    /\ provider = EmptyStore
    /\ now = 0
    /\ reply = NoReply

Next ==
    \/ \E req \in Requests : CreateOrder(req.items, req.currency)
    \/ \E id \in OrderIds : CreateOrderPaid(id)
    \/ \E id \in OrderIds : \E outcome \in FetchFailures : CreateOrderFailed(id, outcome)
    \/ \E id \in OrderIds : PollTick(id)
    \/ \E id \in OrderIds : \E a \in PollAnswers : PollResult(id, a.outcome, a.status)
    \/ ClockTick

Spec == Init /\ [][Next]_vars

(* a provider whose payments settle once: a payment leaves its non-terminal
   statuses for completed, failed or cancelled and stays there; every
   getPayment call succeeds and reports the payment's current status *)
ProviderSettle(p, s) ==
    /\ p \in DOMAIN provider
    /\ provider[p].status \notin TerminalPayment
    /\ provider[p].status # s
    /\ provider' = [provider EXCEPT ![p].status = s]
    /\ UNCHANGED <<orders, nextId, call, watchers, now, reply>>

PollAnswered(id) ==
    /\ watchers[id].inflight > 0
    /\ PollResult(id, "ok", provider[watchers[id].paymentId].status)

LiveNext ==
    \/ \E req \in Requests : CreateOrder(req.items, req.currency)
    \/ \E id \in OrderIds : CreateOrderPaid(id)
    \/ \E id \in OrderIds : \E outcome \in FetchFailures : CreateOrderFailed(id, outcome)
    \/ \E id \in OrderIds : PollTick(id)
    \/ \E id \in OrderIds : PollAnswered(id)
    \/ \E p \in PaymentIds : \E s \in PaymentStatuses : ProviderSettle(p, s)

\* the interval keeps firing while it is not cleared, and every getPayment
\* call is answered
LiveFairness ==
    \A id \in OrderIds : WF_vars(PollTick(id)) /\ WF_vars(PollAnswered(id))

LiveSpec == Init /\ [][LiveNext]_vars /\ LiveFairness

(* the order whose getPayment calls are answered, while the calls of every
   other order may stay outstanding forever *)
Driven == CHOOSE id \in OrderIds : \A other \in OrderIds : id <= other

IndependentFairness == WF_vars(PollTick(Driven)) /\ WF_vars(PollAnswered(Driven))

IndependentSpec == Init /\ [][LiveNext]_vars /\ IndependentFairness

(* the service with getOrder and updateOrderStatus calls from outside, on
   ids the store knows and on ids it does not know (yet) *)
ApiNext ==
    \/ \E req \in Requests : CreateOrder(req.items, req.currency)
    \/ \E id \in OrderIds : CreateOrderPaid(id)
    \/ \E id \in OrderIds : \E outcome \in FetchFailures : CreateOrderFailed(id, outcome)
    \/ \E id \in OrderIds : watchers[id].inflight = 0 /\ PollTick(id)
    \/ \E id \in OrderIds : \E a \in PollAnswers : PollResult(id, a.outcome, a.status)
    \/ \E id \in OrderIds : GetOrder(id)
    \/ \E id \in OrderIds : \E status \in OrderStatuses : UpdateOrderStatus(id, status)

ApiSpec == Init /\ [][ApiNext]_vars

(* the gateway client alone: createPayment and getPayment invoked on every
   payment the provider may hold, with every outcome of the fetch *)
Amounts == {TotalAmount(items) : items \in ItemLists}
Payments ==
    [id : PaymentIds, status : PaymentStatuses, amountCents : Amounts, currency : Currencies]

\* one createPayment invocation; payment is what the provider answers with
\* when it accepts the request
ClientCreatePayment(outcome, payment) ==
    /\ reply' = [op |-> "createPayment", outcome |-> outcome, payment |-> payment,
                 result |-> createPayment(outcome, payment)]
    /\ UNCHANGED <<orders, nextId, call, watchers, provider, now>>

\* one getPayment invocation; payment is what the provider holds under the id
ClientGetPayment(outcome, payment) ==
    /\ reply' = [op |-> "getPayment", outcome |-> outcome, payment |-> payment,
                 result |-> getPayment(outcome, payment)]
    /\ UNCHANGED <<orders, nextId, call, watchers, provider, now>>

\* invocations do not depend on one another (the client keeps no state but
\* its base URL): one invocation is taken from the initial state
ClientNext ==
    \/ \E outcome \in FetchOutcomes : \E payment \in Payments :
           reply = NoReply /\ ClientCreatePayment(outcome, payment)
    \/ \E outcome \in FetchOutcomes : \E payment \in Payments :
           reply = NoReply /\ ClientGetPayment(outcome, payment)

ClientSpec == Init /\ [][ClientNext]_vars

(* the POST /order handler: request bodies as JSON values, tagged with their
   JavaScript type *)
JsonUndefined == [type |-> "undefined"]
JsonString(s) == [type |-> "string", value |-> s]
JsonArray(a) == [type |-> "array", value |-> a]

\* what req.body.items and req.body.currency may hold
BodyItems ==
    {JsonUndefined, JsonString("p1"), JsonArray(<<>>)} \cup {JsonArray(items) : items \in ItemLists}
BodyCurrencies == {JsonUndefined, JsonString("")} \cup {JsonString(c) : c \in Currencies}
Bodies == [items : BodyItems, currency : BodyCurrencies]

\* JavaScript truthiness of a value (an array, even an empty one, is truthy)
truthy(v) == v.type # "undefined" /\ v # JsonString("")
isArray(v) == v.type = "array"

\* mutant: the check of items.length is left out
InvalidOrderData_NoLengthCheck(body) ==
    IF ~truthy(body.items) THEN TRUE
    ELSE IF ~isArray(body.items) THEN TRUE
    ELSE ~truthy(body.currency)

\* the condition under which the handler answers 400 (|| evaluates its
\* right operand only when the left one is false)
InvalidOrderData(body) ==
    IF ~truthy(body.items) THEN TRUE
    ELSE IF ~isArray(body.items) THEN TRUE
    ELSE IF Len(body.items.value) = 0 THEN TRUE
    ELSE ~truthy(body.currency)

InvalidOrderDataMessage == "Invalid order data. 'items' and 'currency' are required."

\* the handler answers 400 and returns
PostOrderRejected(body) ==
    /\ InvalidOrderData(body)
    /\ reply' = [op |-> "POST /order", request |-> body, status |-> 400,
                 body |-> [message |-> InvalidOrderDataMessage]]
    /\ UNCHANGED <<orders, nextId, call, watchers, provider, now>>

\* the handler calls createOrder and awaits it
PostOrderAccepted(body) ==
    /\ ~InvalidOrderData(body)
    /\ CreateOrder(body.items.value, body.currency.value)

\* what the handler answers once the createOrder call it awaits has settled
PostOrderResponse(id) ==
    IF call[id].pc = "returned" THEN [status |-> 201, body |-> call[id].result]
    ELSE IF call[id].pc = "thrown"
    THEN [status |-> 500, body |-> [message |-> call[id].error.message]]
    ELSE undefined

\* one request with invalid data and one with valid data, in either order
\* (the handler keeps no state of its own between requests)
HttpNext ==
    \/ \E body \in Bodies : reply = NoReply /\ PostOrderRejected(body)
    \/ \E body \in Bodies : orders = EmptyStore /\ PostOrderAccepted(body)
    \/ \E id \in OrderIds : CreateOrderPaid(id)
    \/ \E id \in OrderIds : \E outcome \in FetchFailures : CreateOrderFailed(id, outcome)

HttpSpec == Init /\ [][HttpNext]_vars

(* one createOrder call over every item list and currency *)
NextTotal ==
    \/ \E items \in ItemLists : \E currency \in Currencies :
           orders = EmptyStore /\ CreateOrder(items, currency)
    \/ \E id \in OrderIds : CreateOrderPaid(id)
    \/ \E id \in OrderIds : \E outcome \in FetchFailures : CreateOrderFailed(id, outcome)
    \/ ClockTick

SpecTotal == Init /\ [][NextTotal]_vars

(* ------------------------------ claims -------------------------------- *)
Terminal == {"completed", "cancelled"}

\* C1: when createPayment fails, createOrder fails with an error and the
\* inserted order stays in the store in cancelled status: getOrder by its id
\* returns it, cancelled, in every later state.
C1_FailedCreateKeepsCancelledOrder ==
    \A id \in OrderIds :
        call[id].pc = "thrown" =>
            /\ call[id].error # NoError
            /\ getOrder(id) # undefined
            /\ getOrder(id).id = id
            /\ getOrder(id).status = "cancelled"

\* C1 witness: a createOrder call has failed, time has passed since and
\* another order has been created after it
C1_Witness ==
    \E id \in OrderIds :
        /\ call[id].pc = "thrown"
        /\ getOrder(id).status = "cancelled"
        /\ now > getOrder(id).createdAt
        /\ nextId > id + 1

\* C2: when createPayment succeeds, createOrder resolves with an order in
\* pending status, with its id, and with paymentId equal to the id of the
\* payment the provider just created; getOrder(id) returns that same order
\* at that moment.
C2_PaidCreateReturnsPendingOrder ==
    [][\A id \in OrderIds :
          (call[id].pc = "awaitPayment" /\ call'[id].pc = "returned") =>
              /\ call'[id].result.status = "pending"
              /\ call'[id].result.id = id
              /\ call'[id].result.paymentId # NoPayment
              /\ DOMAIN provider' \ DOMAIN provider = {call'[id].result.paymentId}
              /\ provider'[call'[id].result.paymentId].id = call'[id].result.paymentId
              /\ getOrder(id)' = call'[id].result]_vars

\* C2 witness: a createOrder call has returned an order carrying a paymentId
C2_Witness ==
    \E id \in OrderIds :
        /\ call[id].pc = "returned"
        /\ call[id].result.status = "pending"
        /\ call[id].result.paymentId \in DOMAIN provider

\* C3: once a poll observes a completed payment the order becomes completed,
\* and from then on the watcher does nothing more for that order: it issues
\* no getPayment call and applies no update to the order, a poll still in
\* flight included.
C3_NoWatcherActivityAfterCompleted ==
    [][\A id \in OrderIds :
          /\ PollResult(id, "ok", "completed") => orders'[id].status = "completed"
          /\ (/\ watchers[id].state = "cleared"
              /\ orders[id].status = "completed") =>
                  /\ watchers'[id].inflight <= watchers[id].inflight
                  /\ orders'[id] = orders[id]]_vars

\* C4: once a poll observes a failed or cancelled payment the order becomes
\* cancelled and the interval is cleared; a cleared interval stays cleared
\* and issues no further getPayment call.
C4_FailedPaymentCancelsAndStops ==
    [][\A id \in OrderIds :
          /\ \A s \in {"failed", "cancelled"} :
                 PollResult(id, "ok", s) =>
                     /\ orders'[id].status = "cancelled"
                     /\ watchers'[id].state = "cleared"
          /\ watchers[id].state = "cleared" =>
                 /\ watchers'[id].state = "cleared"
                 /\ watchers'[id].inflight <= watchers[id].inflight]_vars

\* C4 witness: an order with a payment is cancelled and its interval cleared
\* (without direct status updates only a failed or cancelled poll does that)
C4_Witness ==
    \E id \in OrderIds :
        /\ getOrder(id) # undefined
        /\ getOrder(id).paymentId # NoPayment
        /\ getOrder(id).status = "cancelled"
        /\ watchers[id].state = "cleared"
        /\ watchers[id].inflight = 0

\* C5: with createOrder calls and watcher polls only, an order that is
\* completed or cancelled never changes status again.
C5_TerminalStatusNeverChanges ==
    [][\A id \in DOMAIN orders :
          orders[id].status \in Terminal => orders'[id].status = orders[id].status]_vars

\* C6: a poll whose getPayment call fails changes no order and clears the
\* interval; the stopped watcher of the still pending order is never
\* restarted and issues no further getPayment call.
C6_PollErrorStopsWatcherOnly ==
    [][\A id \in OrderIds :
          /\ \A f \in FetchFailures :
                 PollResult(id, f, "none") =>
                     /\ orders' = orders
                     /\ watchers'[id].state = "cleared"
                     /\ watchers'[id].inflight = watchers[id].inflight - 1
          /\ (watchers[id].state = "cleared" /\ orders[id].status = "pending") =>
                 /\ watchers'[id].state = "cleared"
                 /\ watchers'[id].inflight <= watchers[id].inflight]_vars

\* C6 witness: a watcher has stopped on a poll error: its interval is cleared
\* and the order is still pending (no terminal status was ever observed)
C6_Witness ==
    \E id \in OrderIds :
        /\ getOrder(id) # undefined
        /\ getOrder(id).status = "pending"
        /\ watchers[id].state = "cleared"
        /\ watchers[id].inflight = 0
        /\ now > getOrder(id).createdAt

StatusOf(id) == IF id \in DOMAIN orders THEN orders[id].status ELSE "none"
PaymentOf(id) == IF id \in DOMAIN orders THEN orders[id].paymentId ELSE NoPayment
Settled(p, S) == p \in DOMAIN provider /\ provider[p].status \in S

\* C7: when the payment of an order has settled as completed (as failed or
\* cancelled) at the provider and getPayment calls succeed, the order
\* eventually becomes completed (cancelled).
C7_EventuallyConsistent ==
    \A id \in OrderIds :
        /\ Settled(PaymentOf(id), {"completed"}) ~> (StatusOf(id) = "completed")
        /\ Settled(PaymentOf(id), {"failed", "cancelled"}) ~> (StatusOf(id) = "cancelled")

\* C7 witness: the provider settled a payment as completed while its order
\* was pending with a poll in flight, and another order has caught up with
\* its failed payment
C7_Witness ==
    \E id, other \in OrderIds :
        /\ Settled(PaymentOf(id), {"completed"})
        /\ StatusOf(id) = "pending"
        /\ watchers[id].inflight > 0
        /\ Settled(PaymentOf(other), {"failed"})
        /\ StatusOf(other) = "cancelled"

\* C8: there is no path out of pending but a failed createPayment and a
\* terminal poll answer, and an order whose watcher has stopped on a poll
\* error (interval cleared, order pending) stays pending in every later state.
C8_PendingForeverAfterPollError ==
    [][\A id \in DOMAIN orders :
          /\ (orders[id].status = "pending" /\ orders'[id].status # "pending") =>
                 \/ \E f \in FetchFailures : CreateOrderFailed(id, f)
                 \/ \E s \in TerminalPayment : PollResult(id, "ok", s)
          /\ (watchers[id].state = "cleared" /\ orders[id].status = "pending") =>
                 orders'[id].status = "pending"]_vars

\* the first half of C8 alone
OnlyDefinedPathsOutOfPending ==
    [][\A id \in DOMAIN orders :
          (orders[id].status = "pending" /\ orders'[id].status # "pending") =>
              \/ \E f \in FetchFailures : CreateOrderFailed(id, f)
              \/ \E s \in TerminalPayment : PollResult(id, "ok", s)]_vars

\* the sum of quantity * price over the items at the indices in S
RECURSIVE SigmaOver(_, _)
SigmaOver(items, S) ==
    IF S = {} THEN 0
    ELSE LET i == CHOOSE j \in S : TRUE
         IN items[i].quantity * items[i].price + SigmaOver(items, S \ {i})

\* C9: the order's totalAmount is the sum over the submitted items of
\* quantity * price, and it is on the stored order from the moment the
\* createPayment call is issued (and in every state after).
C9_TotalIsSumOfItems ==
    \A id \in OrderIds :
        call[id].pc # "idle" =>
            /\ id \in DOMAIN orders
            /\ orders[id].items \in ItemLists
            /\ orders[id].totalAmount =
                   SigmaOver(orders[id].items, DOMAIN orders[id].items)

\* C9 witness: a createPayment call is in flight for an order of two items
\* with a quantity above one, and the stored order carries the total
C9_Witness ==
    \E id \in OrderIds :
        /\ call[id].pc = "awaitPayment"
        /\ Len(orders[id].items) = 2
        /\ orders[id].items[1].quantity = 2
        /\ orders[id].items[1].price # orders[id].items[2].price
        /\ orders[id].totalAmount =
               orders[id].items[1].quantity * orders[id].items[1].price
                   + orders[id].items[2].quantity * orders[id].items[2].price

\* C10 as claimed: the error createOrder fails with is distinct from the
\* gateway's error and wraps it.
C10_ThrownErrorWrapsGatewayError ==
    \A id \in OrderIds :
        call[id].pc = "thrown" =>
            /\ call[id].error # call[id].caught
            /\ call[id].error.cause = call[id].caught

\* C10 amended: the error createOrder fails with is a new error with the
\* fixed message "Payment failed, order cancelled.", distinct from the
\* gateway's error, which it does not carry; the gateway's error is never
\* what the caller receives.
C10_ThrownErrorIsNewAndBare ==
    \A id \in OrderIds :
        call[id].pc = "thrown" =>
            /\ call[id].caught \in {TransportError, CreatePaymentError}
            /\ call[id].error # call[id].caught
            /\ call[id].error.message = "Payment failed, order cancelled."
            /\ call[id].error.cause = NoError

\* C10 witness: a createOrder call has failed after a non-2xx answer
C10_Witness ==
    \E id \in OrderIds :
        /\ call[id].pc = "thrown"
        /\ call[id].caught = CreatePaymentError
        /\ call[id].error = PaymentFailedError

\* C11: whenever a watcher exists or a getPayment call of it is in flight,
\* the stored order already carries paymentId and the id the watcher polls
\* is that paymentId.
C11_PaymentIdSetBeforeFirstPoll ==
    \A id \in OrderIds :
        (watchers[id].state # "none" \/ watchers[id].inflight > 0) =>
            /\ id \in DOMAIN orders
            /\ orders[id].paymentId # NoPayment
            /\ watchers[id].paymentId = orders[id].paymentId

\* C11 witness: the first getPayment call of a watcher is in flight
C11_Witness ==
    \E id \in OrderIds :
        /\ watchers[id].state = "active"
        /\ watchers[id].inflight = 1
        /\ orders[id].paymentId = watchers[id].paymentId
        /\ orders[id].status = "pending"

\* C12: pollPaymentStatus is called at most once for an order, so at most
\* one interval ever exists for it; an order with a live interval has had
\* exactly one.
C12_AtMostOneWatcherPerOrder ==
    \A id \in OrderIds :
        /\ watchers[id].started <= 1
        /\ watchers[id].state # "none" => watchers[id].started = 1
        /\ watchers[id].state = "none" => watchers[id].started = 0

\* C12 witness: two orders each have their watcher, one still polling with
\* calls in flight, the other stopped on a poll error
C12_Witness ==
    \E a, b \in OrderIds :
        /\ a # b
        /\ watchers[a].state = "active" /\ watchers[a].inflight = MaxInFlight
        /\ watchers[b].state = "cleared" /\ StatusOf(b) = "pending"
        /\ watchers[a].started = 1 /\ watchers[b].started = 1

\* C13: watchers of different orders do not block one another: when the
\* getPayment calls of the other orders never return, the watcher of an order
\* whose own calls are answered still drives it to the terminal status of its
\* settled payment.
C13_WatchersIndependent ==
    /\ Settled(PaymentOf(Driven), {"completed"}) ~> (StatusOf(Driven) = "completed")
    /\ Settled(PaymentOf(Driven), {"failed", "cancelled"}) ~> (StatusOf(Driven) = "cancelled")

\* C13 witness: every poll of another order is outstanding and its order is
\* pending although its payment has settled, while the driven order has
\* reached the status of its settled payment
C13_Witness ==
    \E a \in OrderIds \ {Driven} :
        /\ watchers[a].state = "active"
        /\ watchers[a].inflight = MaxInFlight
        /\ Settled(PaymentOf(a), {"completed"})
        /\ StatusOf(a) = "pending"
        /\ Settled(PaymentOf(Driven), {"completed"})
        /\ StatusOf(Driven) = "completed"

\* C14: while the createPayment request of a createOrder call is in flight,
\* getOrder on the new id returns the order, pending and without paymentId.
C14_VisibleWhilePaymentInFlight ==
    \A id \in OrderIds :
        call[id].pc = "awaitPayment" =>
            /\ getOrder(id) # undefined
            /\ getOrder(id).id = id
            /\ getOrder(id).status = "pending"
            /\ getOrder(id).paymentId = NoPayment

\* C14 witness: two createOrder calls await createPayment, the clock has moved
\* on since the orders were stored, and getOrder returns both
C14_Witness ==
    /\ \A id \in OrderIds : call[id].pc = "awaitPayment" /\ getOrder(id) # undefined
    /\ \E id \in OrderIds : now > getOrder(id).createdAt

\* C15: every step that changes the status or the paymentId of a stored
\* order sets its updatedAt to the time of the step.
C15_UpdatedAtRefreshedOnMutation ==
    [][\A id \in DOMAIN orders :
           (orders'[id].status # orders[id].status
               \/ orders'[id].paymentId # orders[id].paymentId) =>
                   orders'[id].updatedAt = now]_vars

\* C16: an order carries a paymentId only after the createPayment call of its
\* createOrder call has succeeded, and a paymentId once set is never cleared or
\* changed: not by a poll result, not by an updateOrderStatus call, not by
\* another createOrder call.
C16_PaymentIdSetOnceAfterSuccess ==
    /\ [](\A id \in DOMAIN orders :
             orders[id].paymentId # NoPayment =>
                 /\ call[id].pc = "returned"
                 /\ orders[id].paymentId \in DOMAIN provider)
    /\ [][\A id \in DOMAIN orders :
             orders[id].paymentId # NoPayment =>
                 /\ id \in DOMAIN orders'
                 /\ orders'[id].paymentId = orders[id].paymentId]_vars

\* C16 witness: an order still carries its paymentId after a poll answer
\* stopped its watcher and an updateOrderStatus call rewrote its status, and a
\* later createOrder call has failed
C16_Witness ==
    \E id, other \in DOMAIN orders :
        /\ id < other
        /\ orders[id].paymentId = NewPaymentId(id)
        /\ watchers[id].state = "cleared"
        /\ reply = [op |-> "updateOrderStatus", id |-> id, result |-> Ref(orders, id)]
        /\ orders[id].status = "pending"
        /\ call[other].pc = "thrown"

\* C17: an updateOrderStatus call on a stored order is never refused and
\* overwrites the status with the given one whatever the current status is,
\* terminal statuses included; it starts no watcher, and a watcher that has
\* stopped never runs again.
C17_UpdateOverwritesAnyStatus ==
    /\ [](\A id \in DOMAIN orders : \A status \in OrderStatuses :
             ENABLED UpdateOrderStatus(id, status))
    /\ [][\A id \in DOMAIN orders :
             (reply'.op = "updateOrderStatus" /\ reply'.id = id) =>
                 \A status \in OrderStatuses :
                     UpdateOrderStatus(id, status) =>
                         /\ orders'[id].status = status
                         /\ orders'[id].updatedAt = now
                         /\ watchers' = watchers]_vars
    /\ [][\A id \in OrderIds :
             /\ watchers[id].state = "cleared" => watchers'[id].state = "cleared"
             /\ watchers'[id].started <= 1]_vars

\* C17 witness: an order that createOrder cancelled (its createPayment failed)
\* is pending after an updateOrderStatus call, and no watcher exists for it
C17_Witness ==
    \E id \in DOMAIN orders :
        /\ call[id].pc = "thrown"
        /\ orders[id].status = "pending"
        /\ reply.op = "updateOrderStatus" /\ reply.id = id
        /\ watchers[id] = NoWatcher

\* C18: a getOrder call is never refused; on an id the store does not know it
\* resolves with undefined, on a stored id with the stored order; and it
\* changes neither the store nor any watcher.
C18_GetOrderReadOnly ==
    /\ [](\A id \in OrderIds : ENABLED GetOrder(id))
    /\ [][\A id \in OrderIds :
             (reply'.op = "getOrder" /\ reply'.id = id
                 /\ (reply' # reply \/ GetOrder(id))) =>
                     /\ reply'.result = IF id \in DOMAIN orders THEN [ref |-> id] ELSE undefined
                     /\ orders' = orders
                     /\ watchers' = watchers
                     /\ call' = call]_vars

\* C18 witness: getOrder has resolved with undefined for an id the store does
\* not know, while the store holds an order whose watcher has a poll in flight
C18_Witness ==
    \E id \in OrderIds \ DOMAIN orders : \E other \in DOMAIN orders :
        /\ reply = [op |-> "getOrder", id |-> id, result |-> undefined]
        /\ watchers[other].state = "active"
        /\ watchers[other].inflight > 0

\* C19: an updateOrderStatus call on an id the store does not know is not
\* refused, resolves with undefined and leaves the store as it was.
C19_UpdateUnknownIsNoOp ==
    /\ [](\A id \in OrderIds \ DOMAIN orders : \A status \in OrderStatuses :
             ENABLED UpdateOrderStatus(id, status))
    /\ [][\A id \in OrderIds \ DOMAIN orders :
             (reply'.op = "updateOrderStatus" /\ reply'.id = id
                 /\ (reply' # reply \/ \E status \in OrderStatuses : UpdateOrderStatus(id, status))) =>
                     /\ reply'.result = undefined
                     /\ orders' = orders
                     /\ watchers' = watchers]_vars

\* C19 witness: updateOrderStatus has resolved with undefined for an id the
\* store does not know, and the store holds a pending order and nothing under
\* that id
C19_Witness ==
    \E id \in OrderIds \ DOMAIN orders : \E other \in DOMAIN orders :
        /\ reply = [op |-> "updateOrderStatus", id |-> id, result |-> undefined]
        /\ getOrder(id) = undefined
        /\ orders[other].status = "pending"

\* C20: no step removes an order from the store: an order once stored stays
\* retrievable under its id, whatever status it reaches.
C20_OrdersNeverDeleted ==
    [][\A id \in DOMAIN orders :
           /\ id \in DOMAIN orders'
           /\ orders'[id].id = id
           /\ getOrder(id)' # undefined]_vars

\* C20 witness: every order ever created is in the store in a terminal status,
\* one cancelled by its failed createPayment, one completed by its watcher,
\* and the last updateOrderStatus call was on a stored order
C20_Witness ==
    /\ nextId > MaxOrders
    /\ \A id \in OrderIds : id \in DOMAIN orders /\ orders[id].status \in Terminal
    /\ \E id \in OrderIds : call[id].pc = "thrown" /\ orders[id].status = "cancelled"
    /\ \E id \in OrderIds : watchers[id].state = "cleared" /\ orders[id].status = "completed"
    /\ reply.op = "updateOrderStatus" /\ reply.result # undefined

\* C21: every createPayment and getPayment invocation makes exactly one
\* request; when the request fails in transport or is answered with a
\* non-success response the invocation fails with that error, without a second
\* request; on a success response it returns the provider's payment.
C21_OneRequestNoRetry ==
    reply.op \in {"createPayment", "getPayment"} =>
        /\ reply.result.fetches = 1
        /\ reply.outcome = "ok" =>
               reply.result.ok /\ reply.result.payment = reply.payment
        /\ reply.outcome = "transport" =>
               ~reply.result.ok /\ reply.result.error = TransportError
        /\ reply.outcome = "non2xx" =>
               /\ ~reply.result.ok
               /\ reply.result.error =
                      IF reply.op = "createPayment" THEN CreatePaymentError ELSE GetPaymentError

\* C21 witness: a createPayment invocation has failed on a non-success
\* response after one request
C21_Witness ==
    /\ reply.op = "createPayment"
    /\ reply.outcome = "non2xx"
    /\ ~reply.result.ok
    /\ reply.result.fetches = 1

\* the step delivers the answer of a getPayment call on the payment of order
\* id, and the provider holds that payment with a status in S
PollReturned(id, S) ==
    /\ watchers'[id].inflight = watchers[id].inflight - 1
    /\ orders[id].paymentId = watchers[id].paymentId
    /\ Settled(orders[id].paymentId, S)

\* C22: without updateOrderStatus calls from outside, an order is stored
\* pending, becomes completed only in a step in which a poll of its payment
\* returns completed, becomes cancelled only in a step in which its
\* createPayment call fails or a poll of its payment returns failed or
\* cancelled, and never becomes pending again.
C22_StatusChangesOnlyByTriggers ==
    [][/\ \A id \in DOMAIN orders' \ DOMAIN orders : orders'[id].status = "pending"
       /\ \A id \in DOMAIN orders :
              /\ (orders'[id].status = "completed" /\ orders[id].status # "completed") =>
                     PollReturned(id, {"completed"})
              /\ (orders'[id].status = "cancelled" /\ orders[id].status # "cancelled") =>
                     \/ call[id].pc = "awaitPayment" /\ call'[id].pc = "thrown"
                     \/ PollReturned(id, {"failed", "cancelled"})
              /\ orders'[id].status = "pending" => orders[id].status = "pending"]_vars

\* C22 witness: one order was completed by its watcher, another cancelled by
\* its failed createPayment, and a further poll of the completed one is in flight
C22_Witness ==
    \E a, b \in DOMAIN orders :
        /\ orders[a].status = "completed"
        /\ call[a].pc = "returned"
        /\ watchers[a].state = "cleared"
        /\ watchers[a].inflight > 0
        /\ orders[b].status = "cancelled"
        /\ call[b].pc = "thrown"

\* C23: a poll answered with a status other than completed, failed or
\* cancelled changes no order and leaves the interval as it was; if it was
\* running, it can fire again.
C23_NonTerminalAnswerChangesNothing ==
    [][\A id \in OrderIds : \A s \in PaymentStatuses \ TerminalPayment :
           PollResult(id, "ok", s) =>
               /\ orders' = orders
               /\ watchers'[id].state = watchers[id].state
               /\ watchers'[id].paymentId = watchers[id].paymentId
               /\ watchers[id].state = "active" => (ENABLED PollTick(id))']_vars

\* C23 witness: every poll of a pending order is outstanding, and the step
\* that answers one of them with authorized leaves the order pending and the
\* interval running
C23_Witness ==
    \E id \in DOMAIN orders :
        /\ orders[id].status = "pending"
        /\ watchers[id].state = "active"
        /\ watchers[id].inflight = MaxInFlight
        /\ ENABLED (/\ PollResult(id, "ok", "authorized")
                    /\ orders'[id].status = "pending"
                    /\ watchers'[id].state = "active"
                    /\ watchers'[id].inflight < MaxInFlight)

\* C24: a watcher exists, and a getPayment call is outstanding, only for an
\* order whose createPayment call succeeded; for an order whose createPayment
\* call failed no watcher exists and no poll can be issued or answered.
C24_WatcherOnlyAfterPaymentCreated ==
    \A id \in OrderIds :
        /\ (watchers[id].state # "none" \/ watchers[id].inflight > 0) =>
               call[id].pc = "returned"
        /\ call[id].pc \in {"idle", "awaitPayment", "thrown"} =>
               /\ watchers[id] = NoWatcher
               /\ ~ENABLED PollTick(id)
               /\ \A a \in PollAnswers : ~ENABLED PollResult(id, a.outcome, a.status)

\* C24 witness: the createPayment call of one order failed and no watcher
\* exists for it, although an updateOrderStatus call has made it pending
\* again, while the watcher of another order has a poll in flight
C24_Witness ==
    \E a, b \in DOMAIN orders :
        /\ call[a].pc = "thrown"
        /\ orders[a].status = "pending"
        /\ watchers[a] = NoWatcher
        /\ call[b].pc = "returned"
        /\ watchers[b].state = "active"
        /\ watchers[b].inflight > 0

\* C25: a createOrder call makes exactly one gateway call, a createPayment
\* call, before it returns or fails: a failed createPayment is not repeated,
\* and no getPayment call is outstanding when the call settles.
C25_OneCreatePaymentPerCreateOrder ==
    /\ [](\A id \in OrderIds :
             IF call[id].pc = "idle"
             THEN call[id].gateway = <<>>
             ELSE /\ Len(call[id].gateway) = 1
                  /\ call[id].gateway[1].op = "createPayment")
    /\ [][\A id \in OrderIds :
             call'[id].pc # call[id].pc =>
                 /\ watchers[id].inflight = 0
                 /\ watchers'[id].inflight = 0]_vars

\* C25 witness: one createOrder call has returned and one has failed, each
\* after one createPayment call
C25_Witness ==
    \E a, b \in OrderIds :
        /\ call[a].pc = "returned"
        /\ call[b].pc = "thrown"
        /\ call[b].caught = CreatePaymentError
        /\ Len(call[a].gateway) = 1
        /\ Len(call[b].gateway) = 1

\* C26: the createPayment request of a createOrder call carries the order's
\* totalAmount as amountCents and the order's currency, unconverted, and so
\* does the payment created for it.
C26_PaymentCarriesTotalAndCurrency ==
    \A id \in DOMAIN orders :
        /\ call[id].pc # "idle" =>
               /\ call[id].gateway[1].amountCents = orders[id].totalAmount
               /\ call[id].gateway[1].currency = orders[id].currency
        /\ orders[id].paymentId # NoPayment =>
               /\ provider[orders[id].paymentId].amountCents = orders[id].totalAmount
               /\ provider[orders[id].paymentId].currency = orders[id].currency

\* C26 witness: a payment was created for an order of several items in EUR
C26_Witness ==
    \E id \in DOMAIN orders :
        /\ Len(orders[id].items) = MaxItems
        /\ orders[id].currency = "EUR"
        /\ orders[id].paymentId # NoPayment
        /\ provider[orders[id].paymentId].amountCents = SigmaOver(orders[id].items, 1..MaxItems)
        /\ provider[orders[id].paymentId].currency = "EUR"

\* C27: no step changes the id, items, totalAmount, currency or createdAt of
\* a stored order.
C27_CreationFieldsImmutable ==
    [][\A id \in DOMAIN orders :
           /\ id \in DOMAIN orders'
           /\ orders'[id].id = orders[id].id
           /\ orders'[id].items = orders[id].items
           /\ orders'[id].totalAmount = orders[id].totalAmount
           /\ orders'[id].currency = orders[id].currency
           /\ orders'[id].createdAt = orders[id].createdAt]_vars

\* C27 witness: an order's paymentId was set, and its status and updatedAt
\* were changed by its watcher at a later time than its creation
C27_Witness ==
    \E id \in DOMAIN orders :
        /\ orders[id].paymentId # NoPayment
        /\ orders[id].status = "completed"
        /\ orders[id].updatedAt > orders[id].createdAt
        /\ orders[id].totalAmount = TotalAmount(orders[id].items)

\* C28: when createOrder resumes with the created payment, it sets paymentId
\* and keeps the status the order has at that moment: a status that an
\* updateOrderStatus call wrote while createPayment was in flight is not
\* overwritten with the pending status of creation.
C28_NoLostUpdateAcrossAwait ==
    [][\A id \in DOMAIN orders :
           (call[id].pc = "awaitPayment" /\ call'[id].pc = "returned") =>
               /\ orders'[id].paymentId = NewPaymentId(id)
               /\ orders'[id].status = orders[id].status
               /\ orders'[id].updatedAt = orders[id].updatedAt
               /\ call'[id].result.status = orders[id].status]_vars

\* C28 witness: an updateOrderStatus call has completed an order whose
\* createPayment call is in flight, and the step in which createOrder resumes
\* with the payment leaves the order completed, with its paymentId
C28_Witness ==
    \E id \in DOMAIN orders :
        /\ call[id].pc = "awaitPayment"
        /\ orders[id].status = "completed"
        /\ reply = [op |-> "updateOrderStatus", id |-> id, result |-> Ref(orders, id)]
        /\ ENABLED (/\ CreateOrderPaid(id)
                    /\ orders'[id].status = "completed"
                    /\ orders'[id].paymentId = NewPaymentId(id))

\* C29: a step of the watcher of an order (a tick, an answer, a poll error:
\* the steps that change the number of its outstanding polls) changes no other
\* order's entry and no other order's watcher, and adds no entry.
C29_WatcherStepTouchesOwnOrderOnly ==
    [][\A a \in OrderIds :
           watchers'[a].inflight # watchers[a].inflight =>
               /\ DOMAIN orders' = DOMAIN orders
               /\ \A b \in OrderIds \ {a} :
                      /\ watchers'[b] = watchers[b]
                      /\ b \in DOMAIN orders => orders'[b] = orders[b]
                      /\ call'[b] = call[b]]_vars

\* C29 witness: the watcher of one order has cancelled it at a later time,
\* while another order is as createOrder left it, with every poll outstanding
C29_Witness ==
    \E a, b \in DOMAIN orders :
        /\ a # b
        /\ orders[a].status = "cancelled"
        /\ watchers[a].state = "cleared"
        /\ orders[a].updatedAt > orders[a].createdAt
        /\ orders[b].status = "pending"
        /\ orders[b].updatedAt = orders[b].createdAt
        /\ watchers[b].state = "active"
        /\ watchers[b].inflight = MaxInFlight

\* the requests C30 says are rejected: items missing, not a list or empty,
\* or currency missing (absent or the empty string)
RequiredDataMissing(body) ==
    IF body.items.type # "array" THEN TRUE
    ELSE IF body.items.value = <<>> THEN TRUE
    ELSE body.currency.type = "undefined" \/ body.currency = JsonString("")

\* C30: the POST /order handler answers 400 to a request whose items are
\* missing, not a list or empty, or whose currency is missing, without calling
\* createOrder (no order is stored, no gateway call is made); every other
\* request reaches createOrder, and the handler answers 201 with the order
\* when createOrder returns and 500 with the error's message when it fails.
C30_PostOrderHandler ==
    /\ []((orders = EmptyStore /\ reply = NoReply) =>
             \A body \in Bodies :
                 IF RequiredDataMissing(body)
                 THEN ENABLED PostOrderRejected(body) /\ ~ENABLED PostOrderAccepted(body)
                 ELSE ENABLED PostOrderAccepted(body) /\ ~ENABLED PostOrderRejected(body))
    /\ [](\A id \in DOMAIN orders :
             /\ orders[id].items \in ItemLists
             /\ orders[id].currency \in Currencies
             /\ call[id].pc = "returned" =>
                    /\ PostOrderResponse(id).status = 201
                    /\ PostOrderResponse(id).body = call[id].result
                    /\ PostOrderResponse(id).body.id = id
             /\ call[id].pc = "thrown" =>
                    /\ orders[id].status = "cancelled"
                    /\ PostOrderResponse(id) =
                           [status |-> 500, body |-> [message |-> PaymentFailedError.message]]
             /\ call[id].pc = "awaitPayment" => PostOrderResponse(id) = undefined)
    /\ [][reply' # reply =>
             /\ reply'.status = 400
             /\ RequiredDataMissing(reply'.request)
             /\ orders' = orders
             /\ nextId' = nextId
             /\ call' = call
             /\ provider' = provider
             /\ watchers' = watchers]_vars

\* C30 witness: a request with an empty item list was answered 400 and stored
\* nothing; the one order in the store comes from a valid request, whose
\* createOrder call failed and was answered 500
C30_Witness ==
    /\ reply.op = "POST /order"
    /\ reply.status = 400
    /\ reply.request = [items |-> JsonArray(<<>>), currency |-> JsonString("USD")]
    /\ Cardinality(DOMAIN orders) = nextId - 1
    /\ \E id \in DOMAIN orders :
           /\ call[id].pc = "thrown"
           /\ PostOrderResponse(id).status = 500

TypeOK ==
    /\ DOMAIN orders \subseteq OrderIds
    /\ \A id \in DOMAIN orders : orders[id].status \in OrderStatuses
    /\ now \in Times
====
